---- MODULE Spec2Model ----
(***************************************************************************)
(* A model of the gameplay logic of killer-bunnies: the Farmer (health,   *)
(* stats, weapon cooldown, per-frame update), the Burrow (static registry, *)
(* update / dispose, updateAll / disposeAll) and the Garden (spawn-point   *)
(* selection).  Times are counted in ticks of 1/16 s = 0.0625 s, so the    *)
(* 0.25 s hit window is 4 ticks: every multiple of 1/16 s is exact in the  *)
(* doubles the code computes with, and so is every sum and difference of   *)
(* them the model reaches.  Health and damage are whole units.  A Burrow's  *)
(* spawn timer is drawn by Scalar.RandomRange: it is counted in units of   *)
(* 2^-TimerBits tick, and Math.random() gives the multiples of             *)
(* 2^-TimerBits in [0, 1), so that every value RandomRange returns and     *)
(* update() computes is, again, exact in the code's doubles.  JavaScript   *)
(* runs one handler at a time: a handler with a loop is modelled step by   *)
(* step under a program counter, and no other handler runs while           *)
(* pc # "idle".                                                            *)
(***************************************************************************)
EXTENDS Integers, Sequences, FiniteSets, TLC

\* ------------------------------------------------------------------ bounds
PlayerHealth == 3      \* Config.player.health (the value lives outside src/)
MaxValue == 2          \* largest |value| passed to a modifyX(value)
MaxDamage == 2         \* largest |StabberRabbit.damage|
MaxDelta == 2          \* largest frame delta time, in ticks
TimerFloor == 2        \* the hit timer is followed down to -TimerFloor
MaxBullets == 3        \* bullets created in one run
MaxStat == 1           \* the stats are followed while their total rise is <= MaxStat
MaxPoints == 2         \* spawn points in each of the Garden's two arrays
MaxBurrows == 2        \* Burrows constructed in one run
MaxTime == 2           \* BabylonStore.time is followed up to MaxTime ticks
MaxModifier == 1       \* largest RoundHandler.getDifficultyModifier()
SpawnTimerFloor == 2   \* a spawn timer is followed down to -SpawnTimerFloor ticks
TimerBits == 1         \* Math.random() and the spawn timers go in steps of 2^-TimerBits

\* ------------------------------------------------------- program constants
HitTime == 4           \* #_hitTimer = 0.25 s, in ticks of 1/16 s
\* The values of Config (gameplay/config) are set outside these sources; the
\* model gives them small values, in ticks.
TimeLimitMin == 1      \* least Config.burrow.randomTimeLimit()
TimeLimitMax == 2      \* largest Config.burrow.randomTimeLimit()
SpawnFrequencyMin == 1 \* Config.burrow.spawnFrequency.min
SpawnFrequencyMax == 2 \* Config.burrow.spawnFrequency.max

Min(a, b) == IF a <= b THEN a ELSE b
Max(a, b) == IF a >= b THEN a ELSE b

Values == (0 - MaxValue)..MaxValue
Damages == (0 - MaxDamage)..MaxDamage
\* the health is followed up to the largest max health plus one hit
HealthCeiling == PlayerHealth + MaxValue + MaxDamage
DeltaTimes == 1..MaxDelta
StatValues == {-1, 1}

VARIABLES
    \* Farmer
    health, maxHealth, movementSpeed, weaponDamage, weaponRange, weaponSpeed,
    gunCooldown, isMoving, isFiring, hitTimer, controllerDisabled,
    bullets,          \* Bullets created so far
    pendingTimeouts,  \* cooldown timeouts scheduled and not yet run
    timeoutsRun,      \* cooldown timeout callbacks that have run
    played,           \* the calls the last handler made to the animators
                      \* (play) and the radar (updateBlip), in order
    lastOp,           \* the last handler that ran, with its argument
    sinceHit,         \* the delta times of the update() calls that ran with
                      \* health > 0 since the last onCollide that reduced
                      \* the health (since construction before the first)
    hits,             \* the onCollide calls that reduced the health so far
                      \* (0, 1, or 2 for more than one)
    \* BabylonStore
    time, deltaTime,
    \* Garden
    burrowPoints,     \* length of #_burrowSpawnPoints (point k is index k - 1)
    carrotPoints,     \* length of #_carrotSpawnPoints
    carrotMeshes,     \* per carrot spawn point: whether a child mesh is attached
    gardenDisposed,   \* whether Garden.dispose() has run
    \* Burrow
    objs,             \* the Burrows constructed, in order: Burrow b is objs[b]
    burrows,          \* Burrow._burrows, the static registry
    spawned,          \* the StabberRabbits created by the last update() call
    thrown,           \* whether the last update() call threw (null parent)
    \* the handler in progress
    pc,               \* "idle", or the name of the looping handler
    idx,              \* updateAll's loop index i
    node,             \* getRandom*Node's local node (0: undefined)
    passStart,        \* the registry when updateAll / disposeAll was called
    passCount         \* per Burrow: update() / dispose() calls in that call

farmerVars == <<health, maxHealth, movementSpeed, weaponDamage, weaponRange,
                weaponSpeed, gunCooldown, isMoving, isFiring, hitTimer,
                controllerDisabled, bullets, pendingTimeouts, timeoutsRun, played,
                sinceHit, hits>>
statVars == <<movementSpeed, weaponDamage, weaponRange, weaponSpeed>>
fireVars == <<gunCooldown, isMoving, isFiring, bullets, pendingTimeouts, timeoutsRun>>

gardenVars == <<burrowPoints, carrotPoints, gardenDisposed>>
worldVars == <<time, deltaTime, gardenVars, carrotMeshes, objs,
               burrows, spawned, thrown, pc, idx, node, passStart, passCount>>

vars == <<farmerVars, lastOp, worldVars>>

Op(name, arg) == [name |-> name, arg |-> arg]
Range(seq) == {seq[k] : k \in 1..Len(seq)}

\* animator.play(state) and animator.play(state, false), the animator being
\* #_animator ("body") or #_weaponAnimator ("weapon")
Play(animator, state) == <<animator, state, "">>
PlayOnce(animator, state) == <<animator, state, "false">>
\* RadarManager.updateBlip(this.#_root)
UpdateBlip == <<"radar", "updateBlip", "">>

\* ------------------------------------------------------------------ Farmer
FarmerInit ==
    /\ maxHealth = PlayerHealth
    /\ health = PlayerHealth
    /\ movementSpeed = 0
    /\ weaponDamage = 0
    /\ weaponRange = 0
    /\ weaponSpeed = 0
    /\ gunCooldown = FALSE
    /\ isMoving = FALSE
    /\ isFiring = FALSE
    /\ hitTimer = HitTime
    /\ controllerDisabled = FALSE
    /\ bullets = 0
    /\ pendingTimeouts = 0
    /\ timeoutsRun = 0
    /\ played = <<>>
    /\ sinceHit = 0
    /\ hits = 0

\* Scalar.Clamp(value, min, max) = Math.min(max, Math.max(min, value))
Clamp(value, min, max) == Min(max, Max(min, value))

\* modifyHealth with the bounds of the clamp swapped
ModifiedHealthSwapped(h, value, mx) == Clamp(h + value, mx, 0)
\* the health modifyHealth(value) leaves, from health h and max health mx
ModifiedHealth(h, value, mx) == Clamp(h + value, 0, mx)

ModifyHealth(value) ==
    /\ health' = ModifiedHealth(health, value, maxHealth)
    /\ played' = <<>>
    /\ lastOp' = Op("modifyHealth", value)
    /\ UNCHANGED <<maxHealth, statVars, fireVars, hitTimer, controllerDisabled, sinceHit, hits>>
    /\ UNCHANGED worldVars

ModifyMaxHealth(value) ==
    /\ maxHealth + value \in (0 - MaxValue)..(PlayerHealth + MaxValue)
    /\ maxHealth' = maxHealth + value
    /\ health' = ModifiedHealth(health, health, maxHealth')
    /\ played' = <<>>
    /\ lastOp' = Op("modifyMaxHealth", value)
    /\ UNCHANGED <<statVars, fireVars, hitTimer, controllerDisabled, sinceHit, hits>>
    /\ UNCHANGED worldVars

\* the stats are followed while their total rise is at most MaxStat
StatsInRange(total) == total \in 0..MaxStat
StatTotal == movementSpeed + weaponDamage + weaponRange + weaponSpeed

ModifyMovementSpeed(value) ==
    /\ movementSpeed + value >= 0
    /\ StatsInRange(StatTotal + value)
    /\ movementSpeed' = movementSpeed + value
    /\ played' = <<>>
    /\ lastOp' = Op("modifyMovementSpeed", value)
    /\ UNCHANGED <<health, maxHealth, weaponDamage, weaponRange, weaponSpeed,
                   fireVars, hitTimer, controllerDisabled, sinceHit, hits>>
    /\ UNCHANGED worldVars

ModifyWeaponDamage(value) ==
    /\ weaponDamage + value >= 0
    /\ StatsInRange(StatTotal + value)
    /\ weaponDamage' = weaponDamage + value
    /\ played' = <<>>
    /\ lastOp' = Op("modifyWeaponDamage", value)
    /\ UNCHANGED <<health, maxHealth, movementSpeed, weaponRange, weaponSpeed,
                   fireVars, hitTimer, controllerDisabled, sinceHit, hits>>
    /\ UNCHANGED worldVars

ModifyWeaponRange(value) ==
    /\ weaponRange + value >= 0
    /\ StatsInRange(StatTotal + value)
    /\ weaponRange' = weaponRange + value
    /\ played' = <<>>
    /\ lastOp' = Op("modifyWeaponRange", value)
    /\ UNCHANGED <<health, maxHealth, movementSpeed, weaponDamage, weaponSpeed,
                   fireVars, hitTimer, controllerDisabled, sinceHit, hits>>
    /\ UNCHANGED worldVars

ModifyWeaponSpeed(value) ==
    /\ weaponSpeed + value >= 0
    /\ StatsInRange(StatTotal + value)
    /\ weaponSpeed' = weaponSpeed + value
    /\ played' = <<>>
    /\ lastOp' = Op("modifyWeaponSpeed", value)
    /\ UNCHANGED <<health, maxHealth, movementSpeed, weaponDamage, weaponRange,
                   fireVars, hitTimer, controllerDisabled, sinceHit, hits>>
    /\ UNCHANGED worldVars

\* The collidables onCollide can be handed: a StabberRabbit (attacking or not)
\* with its damage (any number: positive, zero or negative), or any other
\* collidable.
Collidables ==
    [rabbit : {TRUE}, attacking : BOOLEAN, damage : Damages]
        \cup {[rabbit |-> FALSE, attacking |-> FALSE, damage |-> 0]}

\* the health a hit of the given damage leaves
HealthAfterHit(h, damage) == h - damage

\* onCollide without the test of the hit timer
HitLandsAnyTime(c, timer) == c.rabbit /\ c.attacking
\* the test onCollide makes: collidable instanceof StabberRabbit &&
\* collidable.attacking && this.#_hitTimer <= 0
HitLands(c, timer) == c.rabbit /\ c.attacking /\ timer <= 0

OnCollide(c) ==
    /\ IF HitLands(c, hitTimer)
         THEN /\ HealthAfterHit(health, c.damage) <= HealthCeiling
              /\ hitTimer' = HitTime
              /\ health' = HealthAfterHit(health, c.damage)
              /\ played' = << PlayOnce("body", "TakeHit") >>
              /\ sinceHit' = 0
              /\ hits' = Min(hits + 1, 2)
         ELSE /\ UNCHANGED <<hitTimer, health, sinceHit, hits>>
              /\ played' = <<>>
    /\ lastOp' = Op("onCollide", c)
    /\ UNCHANGED <<maxHealth, statVars, fireVars, controllerDisabled>>
    /\ UNCHANGED worldVars

\* the body's Idle test taken out of the firing test
BodyIdleWhileFiring(firing, moving, timer) == ~moving /\ timer <= 0
\* whether update() plays Idle on the body animator: the test on the moving
\* flag and the hit timer is nested in the test on the firing flag
BodyIdle(firing, moving, timer) == ~firing /\ (~moving /\ timer <= 0)

\* Farmer.update, with BabylonStore.deltaTime = dt
FarmerUpdate(dt) ==
    /\ IF health <= 0
         THEN /\ played' = << PlayOnce("body", "Death") >>
              /\ controllerDisabled' = TRUE
              /\ UNCHANGED <<hitTimer, sinceHit>>
         ELSE /\ hitTimer - dt >= 0 - TimerFloor
              /\ played' =
                    (IF ~isFiring THEN << Play("weapon", "Idle") >> ELSE <<>>)
                    \o (IF BodyIdle(isFiring, isMoving, hitTimer)
                          THEN << Play("body", "Idle") >> ELSE <<>>)
                    \o << UpdateBlip >>
              /\ hitTimer' = hitTimer - dt
              /\ sinceHit' = sinceHit + dt
              /\ UNCHANGED controllerDisabled
    /\ lastOp' = Op("Farmer.update", dt)
    /\ UNCHANGED <<health, maxHealth, statVars, fireVars, hits>>
    /\ UNCHANGED worldVars

\* ------------------------------------------- Farmer: controller callbacks
\* onMove: the position change is left to the engine's navigation mesh
OnMove ==
    /\ played' = << Play("body", "Run") >>
    /\ isMoving' = TRUE
    /\ lastOp' = Op("onMove", 0)
    /\ UNCHANGED <<health, maxHealth, statVars, gunCooldown, isFiring, bullets,
                   pendingTimeouts, timeoutsRun, hitTimer, controllerDisabled, sinceHit, hits>>
    /\ UNCHANGED worldVars

OnMoveEnd ==
    /\ isMoving' = FALSE
    /\ played' = <<>>
    /\ lastOp' = Op("onMoveEnd", 0)
    /\ UNCHANGED <<health, maxHealth, statVars, gunCooldown, isFiring, bullets,
                   pendingTimeouts, timeoutsRun, hitTimer, controllerDisabled, sinceHit, hits>>
    /\ UNCHANGED worldVars

\* onFire without the cooldown test
FireBlockedNever(cooldown) == FALSE
\* onFire returns before creating a Bullet when the cooldown flag is set
FireBlocked(cooldown) == cooldown

OnFire ==
    /\ isFiring' = TRUE
    /\ played' = << Play("weapon", "Shoot") >>
                  \o (IF ~isMoving THEN << Play("body", "Shoot") >> ELSE <<>>)
    /\ IF FireBlocked(gunCooldown)
         THEN UNCHANGED <<bullets, gunCooldown, pendingTimeouts>>
         ELSE /\ bullets < MaxBullets
              /\ bullets' = bullets + 1
              /\ gunCooldown' = TRUE
              /\ pendingTimeouts' = pendingTimeouts + 1
    /\ lastOp' = Op("onFire", 0)
    /\ UNCHANGED <<health, maxHealth, statVars, isMoving, timeoutsRun, hitTimer,
                   controllerDisabled, sinceHit, hits>>
    /\ UNCHANGED worldVars

OnFireEnd ==
    /\ isFiring' = FALSE
    /\ played' = <<>>
    /\ lastOp' = Op("onFireEnd", 0)
    /\ UNCHANGED <<health, maxHealth, statVars, gunCooldown, isMoving, bullets,
                   pendingTimeouts, timeoutsRun, hitTimer, controllerDisabled, sinceHit, hits>>
    /\ UNCHANGED worldVars

\* the callback handed to window.setTimeout(..., 200)
CooldownTimeout ==
    /\ pendingTimeouts > 0
    /\ pendingTimeouts' = pendingTimeouts - 1
    /\ timeoutsRun' = timeoutsRun + 1
    /\ gunCooldown' = FALSE
    /\ played' = <<>>
    /\ lastOp' = Op("timeout", 0)
    /\ UNCHANGED <<health, maxHealth, statVars, isMoving, isFiring, bullets,
                   hitTimer, controllerDisabled, sinceHit, hits>>
    /\ UNCHANGED worldVars


\* ------------------------------------------------------------------ Burrow
\* Config.burrow.randomSpawnFrequency(), Config.stabberRabbit.randomSpawnFrequency()
SpawnFrequencies == SpawnFrequencyMin..SpawnFrequencyMax
\* Config.burrow.randomTimeLimit()
TimeLimits == TimeLimitMin..TimeLimitMax
\* RoundHandler.getDifficultyModifier()
Modifiers == 0..MaxModifier
\* the spawn timer units in a tick
Unit == 2^TimerBits
\* a whole number of ticks, in spawn timer units
Ticks(k) == k * Unit
\* a spawn timer less a whole number of ticks (a frame's delta time, or
\* Config.burrow.spawnFrequency.min * modifier)
Minus(timer, ticks) == timer - Ticks(ticks)
\* the random spawn frequencies, in spawn timer units
SpawnFrequencyTimers == {Ticks(freq) : freq \in SpawnFrequencies}
\* Math.random(): the draw j stands for j / Unit, so 0 <= Math.random() < 1
Draws == 0..(Unit - 1)
\* whether Math.random() * (max - min) is a whole number of units for draw j
OnGrid(min, max, j) == (j * (max - min)) % Unit = 0
\* Scalar.RandomRange(min, max) = Math.random() * (max - min) + min, in
\* spawn timer units: the values it returns for the draws followed, those
\* that leave a whole number of units (the draw 0, which returns min, always
\* does)
RandomRange(min, max) ==
    {min + ((j * (max - min)) \div Unit) : j \in {d \in Draws : OnGrid(min, max, d)}}

Ids == 1..MaxBurrows
Constructed == 1..Len(objs)

\* the spawn timers modifyDifficulty(modifier) can leave
ModifyDifficulty(spawnTimer, modifier) ==
    RandomRange(Ticks(SpawnFrequencyMax),
                Minus(spawnTimer, SpawnFrequencyMin * modifier))

\* the spawn timers the constructor can leave: a random spawn frequency,
\* then modifyDifficulty(round.getDifficultyModifier())
InitialSpawnTimers ==
    UNION {ModifyDifficulty(freq, modifier) :
              freq \in SpawnFrequencyTimers, modifier \in Modifiers}

\* new Burrow(parent, round), the random time limit being limit and the
\* random spawn timer it ends with being timer.  A Burrow's record holds the
\* spawn point its root was attached to, its dispose time (in ticks), its
\* spawn timer (in spawn timer units), whether its root
\* node has been disposed (by Burrow.dispose or by Garden.dispose) and
\* whether Burrow.dispose() has been called on it.
NewBurrow(parent, limit, timer) ==
    /\ pc = "idle"
    /\ Len(objs) < MaxBurrows
    /\ limit \in TimeLimits
    /\ timer \in InitialSpawnTimers
    /\ objs' = Append(objs, [parent |-> parent,
                             disposeTime |-> time + limit,
                             spawnTimer |-> timer,
                             rootDisposed |-> FALSE,
                             disposed |-> FALSE])
    /\ burrows' = Append(burrows, Len(objs) + 1)
    /\ lastOp' = Op("new Burrow", parent)
    /\ UNCHANGED <<time, deltaTime, gardenVars, carrotMeshes,
                   spawned, thrown, pc, idx, node, passStart, passCount>>
    /\ UNCHANGED farmerVars

\* Array.prototype.filter(bur => bur !== b)
Filter(reg, b) == SelectSeq(reg, LAMBDA bur : bur # b)

\* dispose() written with splice(indexOf(this), 1): a Burrow that is not in the
\* registry gives index -1, and splice(-1, 1) removes the last element
RegistryAfterSplice(reg, b) ==
    IF \E k \in 1..Len(reg) : reg[k] = b
      THEN Filter(reg, b)
      ELSE SubSeq(reg, 1, Len(reg) - 1)
\* dispose() that leaves the registry alone
RegistryKept(reg, b) == reg
\* the registry Burrow.dispose() leaves
RegistryAfterDispose(reg, b) == Filter(reg, b)

\* Burrow.dispose(): the root node is disposed (which detaches it from its
\* parent) and the Burrow is filtered out of the registry
BurrowDispose(b) ==
    /\ objs' = [objs EXCEPT ![b].rootDisposed = TRUE, ![b].disposed = TRUE]
    /\ burrows' = RegistryAfterDispose(burrows, b)

\* the test made against the frame's delta time instead of the clock
ExpiredByDeltaTime(disposeTime, now) == disposeTime < deltaTime
\* the test Burrow.update() makes before anything else
Expired(disposeTime, now) == disposeTime < now

\* update() without the else: a Burrow that disposes itself goes on to the
\* spawn timer
SpawnBranchAlways(expired) == TRUE
\* whether update() reaches the spawn timer
SpawnBranch(expired) == ~expired

\* the test update() makes on the decremented spawn timer
SpawnDue(t) == t <= Ticks(0)

\* Burrow.update().  Reading the position of the root's parent throws once
\* the root is disposed: Node.dispose() sets its parent to null.
BurrowUpdate(b) ==
    LET expired == Expired(objs[b].disposeTime, time)
        t == Minus(objs[b].spawnTimer, deltaTime)
        disposedObjs == IF expired
                          THEN [objs EXCEPT ![b].rootDisposed = TRUE,
                                            ![b].disposed = TRUE]
                          ELSE objs
        detached == disposedObjs[b].rootDisposed
    IN  /\ burrows' = IF expired THEN RegistryAfterDispose(burrows, b) ELSE burrows
        /\ IF SpawnBranch(expired)
             THEN IF SpawnDue(t)
                    THEN IF detached
                           THEN /\ objs' = [disposedObjs EXCEPT ![b].spawnTimer = t]
                                /\ spawned' = <<>>
                                /\ thrown' = TRUE
                           ELSE /\ \E freq \in SpawnFrequencyTimers :
                                      objs' = [disposedObjs EXCEPT ![b].spawnTimer = freq]
                                /\ spawned' = << [burrow |-> b, at |-> objs[b].parent] >>
                                /\ thrown' = FALSE
                    ELSE /\ objs' = [disposedObjs EXCEPT ![b].spawnTimer = t]
                         /\ spawned' = <<>>
                         /\ thrown' = FALSE
             ELSE /\ objs' = disposedObjs
                  /\ spawned' = <<>>
                  /\ thrown' = FALSE

\* the spawn timer update() leaves on Burrow b stays within the range
\* followed: a timer that falls to 0 or below is reset at once, unless the
\* root is disposed and the call throws
SpawnTimerFollowed(b) ==
    \/ Expired(objs[b].disposeTime, time)
    \/ ~objs[b].rootDisposed
    \/ Minus(objs[b].spawnTimer, deltaTime) >= Ticks(0 - SpawnTimerFloor)

\* a call of update() on any Burrow that was constructed
Update(b) ==
    /\ pc = "idle"
    /\ b \in Constructed
    /\ SpawnTimerFollowed(b)
    /\ BurrowUpdate(b)
    /\ lastOp' = Op("update", b)
    /\ UNCHANGED <<time, deltaTime, gardenVars, carrotMeshes,
                   pc, idx, node, passStart, passCount>>
    /\ UNCHANGED farmerVars

\* a call of modifyDifficulty(modifier) on any Burrow that was constructed
BurrowModifyDifficulty(b, modifier) ==
    /\ pc = "idle"
    /\ b \in Constructed
    /\ \E timer \in ModifyDifficulty(objs[b].spawnTimer, modifier) :
          /\ timer >= Ticks(0 - SpawnTimerFloor)
          /\ objs' = [objs EXCEPT ![b].spawnTimer = timer]
    /\ lastOp' = Op("modifyDifficulty", b)
    /\ UNCHANGED <<time, deltaTime, gardenVars, carrotMeshes, burrows,
                   spawned, thrown, pc, idx, node, passStart, passCount>>
    /\ UNCHANGED farmerVars

\* Garden.dispose(): the root nodes are disposed, and with them every node
\* below them: the spawn points, the roots of the Burrows attached to them
\* (which stay in the registry) and the carrot meshes.  The disposed nodes
\* are detached from each other, so a second call reaches none of the
\* nodes attached to a spawn point since the first.
GardenDispose ==
    /\ pc = "idle"
    /\ IF gardenDisposed
         THEN UNCHANGED <<objs, carrotMeshes, gardenDisposed>>
         ELSE /\ objs' = [b \in Constructed |-> [objs[b] EXCEPT !.rootDisposed = TRUE]]
              /\ carrotMeshes' = [p \in 1..MaxPoints |-> FALSE]
              /\ gardenDisposed' = TRUE
    /\ lastOp' = Op("Garden.dispose", 0)
    /\ UNCHANGED <<time, deltaTime, burrowPoints, carrotPoints, burrows,
                   spawned, thrown, pc, idx, node, passStart, passCount>>
    /\ UNCHANGED farmerVars

\* a call of dispose() on any Burrow that was constructed
Dispose(b) ==
    /\ pc = "idle"
    /\ b \in Constructed
    /\ BurrowDispose(b)
    /\ lastOp' = Op("dispose", b)
    /\ UNCHANGED <<time, deltaTime, gardenVars, carrotMeshes,
                   spawned, thrown, pc, idx, node, passStart, passCount>>
    /\ UNCHANGED farmerVars

\* a call counter that tells 0, 1 and more than 1 apart
Counted(n) == Min(n + 1, 2)

\* Burrow.updateAll(): the call, with i = 0
UpdateAllCall ==
    /\ pc = "idle"
    /\ pc' = "updateAll"
    /\ idx' = 0
    /\ passStart' = burrows
    /\ passCount' = [b \in Ids |-> 0]
    /\ lastOp' = Op("updateAll", "call")
    /\ UNCHANGED <<time, deltaTime, gardenVars, carrotMeshes,
                   objs, burrows, spawned, thrown, node>>
    /\ UNCHANGED farmerVars

\* the Burrow updateAll's loop updates next: this._burrows[i] while
\* i < this._burrows.length (0: the loop ends)
UpdateAllNext(i, reg) ==
    IF i < Len(reg) THEN reg[i + 1] ELSE 0

\* one iteration of updateAll's loop
UpdateAllStep ==
    /\ pc = "updateAll"
    /\ UpdateAllNext(idx, burrows) # 0
    /\ LET b == UpdateAllNext(idx, burrows)
       IN  /\ SpawnTimerFollowed(b)
           /\ BurrowUpdate(b)
           /\ IF thrown'
                THEN \* the exception leaves updateAll
                     /\ pc' = "idle"
                     /\ idx' = 0
                     /\ passStart' = <<>>
                     /\ passCount' = [c \in Ids |-> 0]
                     /\ lastOp' = Op("updateAll", "throw")
                ELSE /\ pc' = pc
                     /\ idx' = idx + 1
                     /\ passStart' = passStart
                     /\ passCount' = [passCount EXCEPT ![b] = Counted(@)]
                     /\ lastOp' = Op("updateAll", "step")
    /\ UNCHANGED <<time, deltaTime, gardenVars, carrotMeshes, node>>
    /\ UNCHANGED farmerVars

\* updateAll's loop ends and the call returns
UpdateAllReturn ==
    /\ pc = "updateAll"
    /\ UpdateAllNext(idx, burrows) = 0
    /\ pc' = "idle"
    /\ idx' = 0
    /\ passStart' = <<>>
    /\ passCount' = [b \in Ids |-> 0]
    /\ lastOp' = Op("updateAll", "return")
    /\ UNCHANGED <<time, deltaTime, gardenVars, carrotMeshes,
                   objs, burrows, spawned, thrown, node>>
    /\ UNCHANGED farmerVars

\* Burrow.disposeAll(): the call
DisposeAllCall ==
    /\ pc = "idle"
    /\ pc' = "disposeAll"
    /\ passStart' = burrows
    /\ passCount' = [b \in Ids |-> 0]
    /\ lastOp' = Op("disposeAll", "call")
    /\ UNCHANGED <<time, deltaTime, gardenVars, carrotMeshes,
                   objs, burrows, spawned, thrown, idx, node>>
    /\ UNCHANGED farmerVars

\* one iteration of disposeAll's loop: this._burrows[0].dispose()
DisposeAllStep ==
    /\ pc = "disposeAll"
    /\ Len(burrows) > 0
    /\ BurrowDispose(burrows[1])
    /\ passCount' = [passCount EXCEPT ![burrows[1]] = Counted(@)]
    /\ lastOp' = Op("disposeAll", "step")
    /\ UNCHANGED <<time, deltaTime, gardenVars, carrotMeshes,
                   spawned, thrown, pc, idx, node, passStart>>
    /\ UNCHANGED farmerVars

\* disposeAll's loop ends and the call returns
DisposeAllReturn ==
    /\ pc = "disposeAll"
    /\ Len(burrows) = 0
    /\ pc' = "idle"
    /\ passStart' = <<>>
    /\ passCount' = [b \in Ids |-> 0]
    /\ lastOp' = Op("disposeAll", "return")
    /\ UNCHANGED <<time, deltaTime, gardenVars, carrotMeshes,
                   objs, burrows, spawned, thrown, idx, node>>
    /\ UNCHANGED farmerVars

\* a rendered frame: BabylonStore.time advances by the frame's delta time
Tick(dt) ==
    /\ pc = "idle"
    /\ time + dt <= MaxTime
    /\ time' = time + dt
    /\ deltaTime' = dt
    /\ lastOp' = Op("tick", dt)
    /\ UNCHANGED <<gardenVars, carrotMeshes, objs, burrows,
                   spawned, thrown, pc, idx, node, passStart, passCount>>
    /\ UNCHANGED farmerVars

\* A frame of a game loop that calls Burrow.updateAll() on every frame: the
\* clock advances by the frame's delta time and updateAll is called.  The
\* clock is followed to MaxTime, and past it while a registered Burrow's
\* dispose time is no more than MaxBurrows frames behind.
Frame(dt) ==
    /\ pc = "idle"
    /\ \/ time + dt <= MaxTime
       \/ \E b \in Range(burrows) :
             time + dt <= objs[b].disposeTime + MaxBurrows * MaxDelta
    /\ time' = time + dt
    /\ deltaTime' = dt
    /\ pc' = "updateAll"
    /\ idx' = 0
    /\ passStart' = burrows
    /\ passCount' = [b \in Ids |-> 0]
    /\ lastOp' = Op("updateAll", "call")
    /\ UNCHANGED <<gardenVars, carrotMeshes, objs, burrows,
                   spawned, thrown, node>>
    /\ UNCHANGED farmerVars

\* ------------------------------------------------------------------ Garden
\* node.getChildMeshes() of burrow spawn point p: the live Burrow roots there
BurrowChildMeshes(p) ==
    {b \in Constructed : objs[b].parent = p /\ ~objs[b].rootDisposed}

\* whether getChildMeshes().length != 0 for spawn point p of the given array
HasChildMeshes(kind, p) ==
    IF kind = "getRandomBurrowNode" THEN BurrowChildMeshes(p) # {}
    ELSE carrotMeshes[p]

SpawnPointCount(kind) ==
    IF kind = "getRandomBurrowNode" THEN burrowPoints ELSE carrotPoints

Kinds == {"getRandomBurrowNode", "getRandomCarrotNode"}

\* MathUtil.randomInt(min, max): an integer of min..max (of an empty range,
\* min: the array is empty then and holds nothing at any index)
RandomInt(min, max) == IF min <= max THEN min..max ELSE {min}

\* array[k]: point k + 1, or undefined (0) outside the array
ArrayAt(kind, k) == IF k \in 0..(SpawnPointCount(kind) - 1) THEN k + 1 ELSE 0

\* the loop condition without the child-mesh test
LoopsOnUndefinedOnly(kind, n) == n = 0
\* the loop condition with the child-mesh test inverted
LoopsOnFree(kind, n) == IF n = 0 THEN TRUE ELSE ~HasChildMeshes(kind, n)
\* the loop condition: !node || node.getChildMeshes().length != 0
Loops(kind, n) == IF n = 0 THEN TRUE ELSE HasChildMeshes(kind, n)

\* getRandomBurrowNode() / getRandomCarrotNode(): the call, node undefined
GetRandomNodeCall(kind) ==
    /\ pc = "idle"
    /\ pc' = kind
    /\ node' = 0
    /\ lastOp' = Op(kind, [phase |-> "call", node |-> 0])
    /\ UNCHANGED <<time, deltaTime, gardenVars, carrotMeshes,
                   objs, burrows, spawned, thrown, idx, passStart, passCount>>
    /\ UNCHANGED farmerVars

\* one iteration of the loop, the random index being k
GetRandomNodeStep(kind, k) ==
    /\ pc = kind
    /\ Loops(kind, node)
    /\ k \in RandomInt(0, SpawnPointCount(kind) - 1)
    /\ node' = ArrayAt(kind, k)
    /\ lastOp' = Op(kind, [phase |-> "step", node |-> node'])
    /\ UNCHANGED <<time, deltaTime, gardenVars, carrotMeshes,
                   objs, burrows, spawned, thrown, pc, idx, passStart, passCount>>
    /\ UNCHANGED farmerVars

\* the loop ends and the call returns node
GetRandomNodeReturn(kind) ==
    /\ pc = kind
    /\ ~Loops(kind, node)
    /\ pc' = "idle"
    /\ node' = 0
    /\ lastOp' = Op(kind, [phase |-> "return", node |-> node])
    /\ UNCHANGED <<time, deltaTime, gardenVars, carrotMeshes,
                   objs, burrows, spawned, thrown, idx, passStart, passCount>>
    /\ UNCHANGED farmerVars

\* a carrot is planted at carrot spawn point p (its mesh becomes a child)
AttachCarrot(p) ==
    /\ pc = "idle"
    /\ p \in 1..carrotPoints
    /\ ~carrotMeshes[p]
    /\ carrotMeshes' = [carrotMeshes EXCEPT ![p] = TRUE]
    /\ lastOp' = Op("attachCarrot", p)
    /\ UNCHANGED <<time, deltaTime, gardenVars, objs, burrows,
                   spawned, thrown, pc, idx, node, passStart, passCount>>
    /\ UNCHANGED farmerVars

\* the carrot at carrot spawn point p is disposed
DetachCarrot(p) ==
    /\ pc = "idle"
    /\ p \in 1..carrotPoints
    /\ carrotMeshes[p]
    /\ carrotMeshes' = [carrotMeshes EXCEPT ![p] = FALSE]
    /\ lastOp' = Op("detachCarrot", p)
    /\ UNCHANGED <<time, deltaTime, gardenVars, objs, burrows,
                   spawned, thrown, pc, idx, node, passStart, passCount>>
    /\ UNCHANGED farmerVars

\* before the first frame, with a Garden whose spawn-point arrays hold
\* nBurrow and nCarrot (empty) points, and no Burrow constructed yet
WorldInit(nBurrow, nCarrot) ==
    /\ time = 0
    /\ deltaTime = 0
    /\ burrowPoints = nBurrow
    /\ carrotPoints = nCarrot
    /\ gardenDisposed = FALSE
    /\ carrotMeshes = [p \in 1..MaxPoints |-> FALSE]
    /\ objs = <<>>
    /\ burrows = <<>>
    /\ spawned = <<>>
    /\ thrown = FALSE
    /\ pc = "idle"
    /\ idx = 0
    /\ node = 0
    /\ passStart = <<>>
    /\ passCount = [b \in Ids |-> 0]

StartState(nBurrow, nCarrot) ==
    /\ FarmerInit
    /\ WorldInit(nBurrow, nCarrot)
    /\ lastOp = Op("init", 0)

\* a Garden of any size, an empty array included
Init == \E nBurrow \in 0..MaxPoints, nCarrot \in 0..MaxPoints :
            StartState(nBurrow, nCarrot)
\* a Garden whose two spawn-point arrays hold MaxPoints points each
InitFullGarden == StartState(MaxPoints, MaxPoints)
\* a Garden with one spawn point in each array
InitSmallGarden == StartState(1, 1)
\* a Garden with any number of burrow spawn points
InitBurrowGarden == \E nBurrow \in 0..MaxPoints : StartState(nBurrow, MaxPoints)

\* the Farmer's health and stats: modifyX, collisions and frame updates
HealthNext ==
    \/ \E value \in Values : ModifyHealth(value)
    \/ \E value \in Values : ModifyMaxHealth(value)
    \/ \E value \in StatValues : ModifyMovementSpeed(value)
    \/ \E value \in StatValues : ModifyWeaponDamage(value)
    \/ \E value \in StatValues : ModifyWeaponRange(value)
    \/ \E value \in StatValues : ModifyWeaponSpeed(value)
    \/ \E c \in Collidables : OnCollide(c)
    \/ \E dt \in DeltaTimes : FarmerUpdate(dt)

SpecHealth == InitFullGarden /\ [][HealthNext]_vars

\* the Farmer's controller events, cooldown timeouts and frame updates
FireNext ==
    \/ OnMove
    \/ OnMoveEnd
    \/ OnFire
    \/ OnFireEnd
    \/ CooldownTimeout
    \/ \E dt \in DeltaTimes : FarmerUpdate(dt)
    \/ \E c \in Collidables : OnCollide(c)

SpecFire == InitFullGarden /\ [][FireNext]_vars

\* the Burrows: construction, frames, and every way update() and dispose()
\* are called
BurrowNext ==
    \/ \E parent \in 1..MaxPoints, limit \in TimeLimits, timer \in InitialSpawnTimers :
          parent <= burrowPoints /\ NewBurrow(parent, limit, timer)
    \/ \E dt \in DeltaTimes : Tick(dt)
    \/ \E b \in Ids : Update(b)
    \/ \E b \in Ids : Dispose(b)
    \/ \E b \in Ids, modifier \in Modifiers : BurrowModifyDifficulty(b, modifier)
    \/ GardenDispose
    \/ UpdateAllCall
    \/ UpdateAllStep
    \/ UpdateAllReturn
    \/ DisposeAllCall
    \/ DisposeAllStep
    \/ DisposeAllReturn

SpecBurrow == InitSmallGarden /\ [][BurrowNext]_vars

\* the registry under construction and disposal alone: no frame is rendered,
\* so a Burrow's timers are never read and the random spawn timer its
\* constructor draws is held at its largest value
RegistryNext ==
    \/ \E parent \in 1..MaxPoints, limit \in TimeLimits :
          parent <= burrowPoints /\ NewBurrow(parent, limit, Ticks(SpawnFrequencyMax))
    \/ \E b \in Ids : Dispose(b)
    \/ DisposeAllCall
    \/ DisposeAllStep
    \/ DisposeAllReturn

SpecRegistry == InitFullGarden /\ [][RegistryNext]_vars

\* a loop that can make its next step makes it: the event loop runs the
\* handler in progress to its end
FairSpecRegistry ==
    SpecRegistry /\ WF_vars(DisposeAllStep) /\ WF_vars(DisposeAllReturn)

\* the game loop: Burrows are constructed between frames, and every frame
\* advances the clock and runs updateAll to its end
FramesNext ==
    \/ \E limit \in TimeLimits, timer \in InitialSpawnTimers :
          NewBurrow(1, limit, timer)
    \/ GardenDispose
    \/ \E dt \in DeltaTimes : Frame(dt)
    \/ UpdateAllStep
    \/ UpdateAllReturn

SpecFrames == InitSmallGarden /\ [][FramesNext]_vars

\* the render loop keeps rendering frames, and a call of updateAll runs to
\* its end
FairSpecFrames ==
    /\ SpecFrames
    /\ WF_vars(\E dt \in DeltaTimes : Frame(dt))
    /\ WF_vars(UpdateAllStep)
    /\ WF_vars(UpdateAllReturn)

\* the Garden's spawn points: Burrows and carrots come and go, and the two
\* getRandom*Node loops pick among the points.  No frame is rendered here,
\* so a Burrow's timers are never read: its constructor's random draws are
\* held at their largest values.
GardenNext ==
    \/ \E kind \in Kinds : GetRandomNodeCall(kind)
    \/ \E kind \in Kinds, k \in 0..(MaxPoints - 1) : GetRandomNodeStep(kind, k)
    \/ \E kind \in Kinds : GetRandomNodeReturn(kind)
    \/ \E p \in 1..MaxPoints : AttachCarrot(p)
    \/ \E p \in 1..MaxPoints : DetachCarrot(p)
    \/ \E parent \in 1..MaxPoints :
          parent <= burrowPoints /\ NewBurrow(parent, TimeLimitMax, Ticks(SpawnFrequencyMax))
    \/ \E b \in Ids : Dispose(b)
    \/ GardenDispose

SpecGarden == Init /\ [][GardenNext]_vars

\* new Burrow(garden.getRandomBurrowNode(), round): the parent is the node
\* the call of getRandomBurrowNode has just returned
NewBurrowAtRandomNode(limit, timer) ==
    /\ lastOp.name = "getRandomBurrowNode"
    /\ lastOp.arg.phase = "return"
    /\ NewBurrow(lastOp.arg.node, limit, timer)

\* Burrows placed by the Garden: every Burrow is constructed at the node
\* getRandomBurrowNode returned, and is disposed by dispose(), by
\* disposeAll() or with the Garden.  No frame is rendered here (an expired
\* Burrow's update() frees its node by the same dispose()), so a Burrow's
\* timers are never read: its constructor's random draws are held at the
\* least time limit and the largest spawn timer.
PlacementNext ==
    \/ GetRandomNodeCall("getRandomBurrowNode")
    \/ \E k \in 0..(MaxPoints - 1) : GetRandomNodeStep("getRandomBurrowNode", k)
    \/ GetRandomNodeReturn("getRandomBurrowNode")
    \/ NewBurrowAtRandomNode(TimeLimitMin, Ticks(SpawnFrequencyMax))
    \/ \E b \in Ids : Dispose(b)
    \/ GardenDispose
    \/ DisposeAllCall
    \/ DisposeAllStep
    \/ DisposeAllReturn

SpecPlacement == InitBurrowGarden /\ [][PlacementNext]_vars

\* fair random index selection: an index that can be drawn again and again
\* is drawn; and a loop whose condition is false ends
FairSpecGarden ==
    /\ SpecGarden
    /\ \A kind \in Kinds :
          /\ WF_vars(GetRandomNodeReturn(kind))
          /\ \A k \in 0..(MaxPoints - 1) : WF_vars(GetRandomNodeStep(kind, k))

\* ------------------------------------------------------ claims: the Farmer

\* C1: after any sequence of Farmer operations the health satisfies
\* 0 <= health <= maxHealth.
HealthInBounds == 0 <= health /\ health <= maxHealth

\* C4: modifyHealth(value) sets health to health + value limited to
\* [0, maxHealth] (Scalar.Clamp: below by 0 first, then above by maxHealth),
\* and leaves maxHealth, the movement speed and the weapon stats unchanged.
ModifyHealthClamps ==
    [][lastOp'.name = "modifyHealth" =>
          LET x == health + lastOp'.arg
          IN  /\ health' = IF x > maxHealth THEN maxHealth
                           ELSE IF x >= 0 THEN x
                           ELSE IF maxHealth < 0 THEN maxHealth ELSE 0
              /\ maxHealth' = maxHealth
              /\ movementSpeed' = movementSpeed
              /\ weaponDamage' = weaponDamage
              /\ weaponRange' = weaponRange
              /\ weaponSpeed' = weaponSpeed]_vars

\* a negative modifyHealth has run and the health was limited at 0, with a
\* changed stat to leave alone
ModifyHealthClampedLow ==
    /\ lastOp.name = "modifyHealth"
    /\ lastOp.arg < 0
    /\ health = 0
    /\ maxHealth > 0
    /\ StatTotal > 0

\* C5: modifyMaxHealth(value) changes maxHealth by exactly value and leaves
\* the health alone, except that a health above the new maxHealth becomes the
\* new maxHealth.
ModifyMaxHealthKeepsHealth ==
    [][lastOp'.name = "modifyMaxHealth" =>
          /\ maxHealth' = maxHealth + lastOp'.arg
          /\ health' = IF health <= maxHealth' THEN health ELSE maxHealth']_vars

\* C9: at most one cooldown timeout is pending and the bullets created never
\* exceed the timeouts run plus one; a bullet is created only with the
\* cooldown flag clear, which that handler sets, and only the timeout
\* callback clears the flag.
CooldownGatesBullets ==
    /\ [](pendingTimeouts <= 1 /\ bullets <= timeoutsRun + 1)
    /\ [][(bullets' # bullets) =>
              (lastOp'.name = "onFire" /\ bullets' = bullets + 1
                  /\ ~gunCooldown /\ gunCooldown')]_vars
    /\ [][(gunCooldown /\ ~gunCooldown') => (lastOp'.name = "timeout")]_vars

\* an onFire during the cooldown of the second bullet, after one timeout ran
FireDuringCooldown ==
    /\ lastOp.name = "onFire"
    /\ gunCooldown
    /\ pendingTimeouts = 1
    /\ bullets = 2
    /\ timeoutsRun = 1

\* the calls among the given ones that are Animator.play calls
Plays(calls) == {calls[k] : k \in {j \in 1..Len(calls) : calls[j][1] # "radar"}}

\* C12: Farmer.update with health <= 0 plays only the Death animation
\* (non-looping) and disables the controller, without playing Idle,
\* decrementing the hit timer or updating the radar blip; with health > 0 it
\* plays Idle on the weapon animator iff the Farmer is not firing and Idle on
\* the body animator iff the Farmer is not firing, not moving and the hit
\* timer is <= 0 (and plays nothing else, decrements the hit timer and
\* updates the radar blip).
UpdateSelectsAnimation ==
    [][lastOp'.name = "Farmer.update" =>
          IF health <= 0
            THEN /\ played' = << <<"body", "Death", "false">> >>
                 /\ controllerDisabled'
                 /\ hitTimer' = hitTimer
            ELSE /\ <<"weapon", "Idle", "">> \in Plays(played') <=> ~isFiring
                 /\ <<"body", "Idle", "">> \in Plays(played')
                        <=> (~isFiring /\ ~isMoving /\ hitTimer <= 0)
                 /\ Plays(played') \subseteq
                        {<<"weapon", "Idle", "">>, <<"body", "Idle", "">>}
                 /\ Len(played') = Cardinality(Plays(played')) + 1
                 /\ played'[Len(played')] = <<"radar", "updateBlip", "">>
                 /\ hitTimer' = hitTimer - lastOp'.arg
                 /\ controllerDisabled' = controllerDisabled]_vars

\* update() has just run on a dead Farmer whose flags and hit timer would
\* have selected Idle on both animators
DeathPlayedOverIdle ==
    /\ lastOp.name = "Farmer.update"
    /\ health <= 0
    /\ ~isFiring /\ ~isMoving
    /\ played = << <<"body", "Death", "false">> >>
    /\ controllerDisabled

\* C13: onCollide reduces the health, by the collidable's damage, only when
\* the collidable is an attacking StabberRabbit and the hit timer is <= 0,
\* and then resets the hit timer to 0.25 s; any other collision leaves health
\* and hit timer unchanged.  Hence every health reduction by onCollide comes
\* after update() calls with health > 0 whose delta times sum to at least
\* 0.25 s since the previous one, or since construction for the first.
HitWindow ==
    /\ [][lastOp'.name = "onCollide" =>
              IF lastOp'.arg.rabbit /\ lastOp'.arg.attacking /\ hitTimer <= 0
                THEN /\ health' = health - lastOp'.arg.damage
                     /\ hitTimer' = HitTime
                ELSE /\ health' = health
                     /\ hitTimer' = hitTimer]_vars
    /\ [][(lastOp'.name = "onCollide" /\ health' # health) =>
              sinceHit >= HitTime]_vars
    /\ [][hitTimer' # hitTimer =>
              lastOp'.name \in {"onCollide", "Farmer.update"}]_vars

\* a second hit has just landed, in a run where update() also ran with
\* health <= 0 (an update that does not count towards the window)
SecondHitLanded ==
    /\ lastOp.name = "onCollide"
    /\ played = << <<"body", "TakeHit", "false">> >>
    /\ hits = 2
    /\ hitTimer = HitTime
    /\ sinceHit = 0
    /\ controllerDisabled

\* ------------------------------------------------------ claims: the Burrow

\* updateAll's loop has ended: the call is about to return
UpdateAllDone == pc = "updateAll" /\ UpdateAllNext(idx, burrows) = 0
\* disposeAll's loop has ended: the call is about to return
DisposeAllDone == pc = "disposeAll" /\ Len(burrows) = 0

\* C3: one call of updateAll calls update() exactly once on every Burrow that
\* was in the registry when the call began.
UpdateAllUpdatesAll ==
    UpdateAllDone => \A b \in Range(passStart) : passCount[b] = 1

\* C7: disposeAll terminates; when it returns the registry is empty and
\* dispose() has been called exactly once on every Burrow that was registered
\* when the call began (and on no other).
DisposeAllDisposesAll ==
    /\ [](DisposeAllDone =>
            /\ burrows = <<>>
            /\ \A b \in Ids : passCount[b] = IF b \in Range(passStart) THEN 1 ELSE 0
            /\ \A b \in Range(passStart) : objs[b].disposed /\ objs[b].rootDisposed)
    /\ (pc = "disposeAll") ~> (pc = "idle")

\* disposeAll's loop has ended after disposing two registered Burrows
DisposeAllDisposedTwo ==
    /\ DisposeAllDone
    /\ Len(passStart) = 2
    /\ \A b \in Range(passStart) : passCount[b] = 1

\* C8: the registry holds exactly the Burrows constructed and not yet
\* disposed, each exactly once.
RegistryIsLiveBurrows ==
    /\ Range(burrows) = {b \in Constructed : ~objs[b].disposed}
    /\ \A j, k \in 1..Len(burrows) : burrows[j] = burrows[k] => j = k

\* a Burrow was disposed a second time while another one is still registered
DisposedTwice ==
    /\ lastOp.name = "dispose"
    /\ objs[lastOp.arg].disposed
    /\ Len(burrows) = 1
    /\ Len(objs) = 2
    /\ lastOp.arg \notin Range(burrows)

\* this step is a call of update() on Burrow b, directly or from updateAll
UpdateCalledOn(b) ==
    \/ lastOp' = Op("update", b)
    \/ /\ lastOp'.name = "updateAll"
       /\ lastOp'.arg \in {"step", "throw"}
       /\ idx < Len(burrows)
       /\ burrows[idx + 1] = b

\* C10: update() on a Burrow whose dispose time has passed (disposeTime <
\* time) disposes it and neither changes its spawn timer nor creates a
\* StabberRabbit; and no update() creates a StabberRabbit for a Burrow that
\* was disposed before the call or is disposed by it.
ExpiredBurrowOnlyDisposes ==
    [][\A b \in Constructed :
          UpdateCalledOn(b) =>
              /\ objs[b].disposeTime < time =>
                    /\ objs'[b].disposed
                    /\ objs'[b].rootDisposed
                    /\ b \notin Range(burrows')
                    /\ objs'[b].spawnTimer = objs[b].spawnTimer
                    /\ spawned' = <<>>
              /\ (objs[b].disposed \/ objs'[b].disposed) => spawned' = <<>>]_vars

\* updateAll has just disposed an expired Burrow whose spawn timer was due
ExpiredBurrowDisposedWhenDue ==
    /\ lastOp = Op("updateAll", "step")
    /\ \E b \in Range(passStart) :
          /\ passCount[b] = 1
          /\ b \notin Range(burrows)
          /\ objs[b].disposed
          /\ objs[b].disposeTime < time
          /\ Minus(objs[b].spawnTimer, deltaTime) <= Ticks(0)
    /\ spawned = <<>>

\* C11: update() on a Burrow that has not expired decrements the spawn
\* timer by the frame delta time and creates a StabberRabbit if and
\* only if the decremented timer is <= 0: then exactly one, at the Burrow's
\* parent spawn point, and the timer is reset to a fresh random spawn
\* frequency.
UnexpiredUpdateSpawnsWhenDue ==
    [][\A b \in Constructed :
          (UpdateCalledOn(b) /\ ~(objs[b].disposeTime < time)) =>
              LET t == Minus(objs[b].spawnTimer, deltaTime)
              IN  IF t <= Ticks(0)
                    THEN /\ spawned' = << [burrow |-> b, at |-> objs[b].parent] >>
                         /\ objs'[b].spawnTimer \in SpawnFrequencyTimers
                    ELSE /\ spawned' = <<>>
                         /\ objs'[b].spawnTimer = t]_vars

\* C14: with the clock advancing and updateAll called on every frame, every
\* registered Burrow is eventually disposed and out of the registry, however
\* many Burrows exist and whichever of them dispose themselves in the same
\* pass.
EveryBurrowDisposed ==
    \A b \in Ids :
        (b \in Range(burrows))
            ~> (b \in Constructed /\ objs[b].disposed /\ b \notin Range(burrows))

\* updateAll has just disposed the second Burrow in a pass it began alone:
\* it had expired before the previous frame, whose pass skipped it
SkippedBurrowDisposed ==
    /\ lastOp = Op("updateAll", "step")
    /\ passStart = <<2>>
    /\ burrows = <<>>
    /\ objs[2].disposed
    /\ objs[2].disposeTime < time - deltaTime

\* ------------------------------------------------------ claims: the Garden
\* some spawn point of the array is free: it has no attached child mesh
AnyFree(kind) ==
    \E p \in 1..SpawnPointCount(kind) : ~HasChildMeshes(kind, p)

\* C2: the node getRandomBurrowNode / getRandomCarrotNode returns is a member
\* of its spawn-point array and has no attached child mesh.
ReturnedNodeIsFree ==
    /\ (lastOp.name = "getRandomBurrowNode" /\ lastOp.arg.phase = "return") =>
          /\ lastOp.arg.node \in 1..burrowPoints
          /\ \A b \in Constructed :
                objs[b].parent = lastOp.arg.node => objs[b].rootDisposed
    /\ (lastOp.name = "getRandomCarrotNode" /\ lastOp.arg.phase = "return") =>
          /\ lastOp.arg.node \in 1..carrotPoints
          /\ ~carrotMeshes[lastOp.arg.node]

\* getRandomBurrowNode has returned a node while another burrow spawn point
\* holds a live Burrow
ReturnedBesideOccupied ==
    /\ lastOp.name = "getRandomBurrowNode"
    /\ lastOp.arg.phase = "return"
    /\ \E p \in 1..burrowPoints :
          p # lastOp.arg.node /\ \E b \in Constructed :
                                    objs[b].parent = p /\ ~objs[b].rootDisposed

\* the live Burrows whose mesh subtree hangs from burrow spawn point p
LiveAt(p) == {b \in Constructed : ~objs[b].rootDisposed /\ objs[b].parent = p}

\* C15: with every Burrow constructed at a node obtained from
\* getRandomBurrowNode, no two live Burrows share a spawn point, and a spawn
\* point is free again (no child mesh; getRandomBurrowNode's loop accepts it)
\* once its Burrow is disposed.
OneBurrowPerSpawnPoint ==
    /\ [](\A p \in 1..MaxPoints : Cardinality(LiveAt(p)) <= 1)
    /\ [](\A b \in Constructed : objs[b].parent \in 1..burrowPoints)
    /\ [][\A b \in Constructed :
              (~objs[b].rootDisposed /\ objs'[b].rootDisposed) =>
                  /\ LiveAt(objs[b].parent)' = {}
                  /\ ~Loops("getRandomBurrowNode", objs[b].parent)']_vars

\* a second Burrow was constructed at the spawn point the first one was
\* disposed from, in a Garden with another spawn point to draw
SpawnPointReused ==
    /\ lastOp.name = "new Burrow"
    /\ burrowPoints = MaxPoints
    /\ Len(objs) = 2
    /\ objs[1].rootDisposed
    /\ ~objs[2].rootDisposed
    /\ objs[2].parent = objs[1].parent

\* C6: a call of getRandomBurrowNode / getRandomCarrotNode returns if some
\* spawn point of its array is free (under fair index selection), and never
\* returns while none is free (every point occupied, or the array empty).
ReturnsIffSomeFree ==
    /\ (pc = "getRandomBurrowNode" /\ AnyFree("getRandomBurrowNode"))
          ~> (lastOp.name = "getRandomBurrowNode" /\ lastOp.arg.phase = "return")
    /\ (pc = "getRandomCarrotNode" /\ AnyFree("getRandomCarrotNode"))
          ~> (lastOp.name = "getRandomCarrotNode" /\ lastOp.arg.phase = "return")
    /\ [][\A kind \in Kinds : (pc = kind /\ ~AnyFree(kind)) => pc' = kind]_vars

\* getRandomCarrotNode is looping over a full array: every carrot spawn point
\* holds a mesh and the loop has drawn one of them
LoopingOverFullArray ==
    /\ pc = "getRandomCarrotNode"
    /\ carrotPoints = MaxPoints
    /\ \A p \in 1..carrotPoints : carrotMeshes[p]
    /\ node # 0

====
